---- MODULE Spec2Model ----
(***************************************************************************)
(* Model of the flexible multi-camera processor                            *)
(* (core/flexible_multi_camera_processor.py) together with the use-case    *)
(* toggle endpoint of api/multi_camera_api.py.                              *)
(*                                                                         *)
(* One FlexibleMultiCameraProcessor owns one FlexibleCameraStream per      *)
(* configured camera, one worker thread per camera, one event queue and    *)
(* one event saving thread.  Python lists are sequences, dicts are         *)
(* functions whose DOMAIN is the key set, threads are program counters.    *)
(***************************************************************************)
EXTENDS Integers, Sequences, FiniteSets, TLC

(* ------------------------------------------------------------------ *)
(* Bounds and constants                                                *)
(* ------------------------------------------------------------------ *)

\* Frames a camera's stream delivers before it ends, in Spec (a camera under
\* control calls) and in SpecQueue (cameras filling the event queue).
CycleFrames == 2

QueueFrames == 3

\* Largest number of detections one capability returns for one frame.
MaxDetections == 1

\* The same in SpecCycle, where a capability's count is compared with what
\* the result carries.
CycleDetections == 2

\* MultiCameraConfig.EVENT_QUEUE_SIZE, read from the environment; the model
\* runs with EVENT_QUEUE_SIZE=2.
EVENT_QUEUE_SIZE == 2

CameraIds == {"cam_001", "cam_002"}

\* The threads that call stop(): the one that ran start_processing, after
\* its monitoring loop, and a request handler of the API (stop_system,
\* shutdown_event).
StopCallers == {"main", "api"}

\* What connect() finds: the capture opened, it did not open, or
\* cv2.VideoCapture raised.  Each is the connection_status connect sets.
ConnectOutcomes == {"connected", "failed", "error"}

\* MultiCameraConfig.CAMERA_RECONNECT_ATTEMPTS (its default).
CAMERA_RECONNECT_ATTEMPTS == 3

\* Keys of CAMERA_MODEL_MAPPING (three of the five, the others behave alike).
CAMERA_MODEL_MAPPING == {"people_counting", "ppe_detection", "intrusion"}

\* Use case names a caller or a configuration can carry; the last one has
\* no entry in CAMERA_MODEL_MAPPING.
UseCaseIds == CAMERA_MODEL_MAPPING \cup {"face_recognition"}

(* ------------------------------------------------------------------ *)
(* Python list and dict helpers                                        *)
(* ------------------------------------------------------------------ *)

\* x in lst
InList(x, lst) == \E i \in 1..Len(lst) : lst[i] = x

\* set(lst)
ListSet(lst) == {lst[i] : i \in 1..Len(lst)}

\* lst.remove(x) for x in lst: drops the first occurrence
ListRemove(lst, x) ==
    LET i == CHOOSE k \in 1..Len(lst) :
                 lst[k] = x /\ \A j \in 1..(k - 1) : lst[j] # x
    IN  SubSeq(lst, 1, i - 1) \o SubSeq(lst, i + 1, Len(lst))

\* if x not in lst: lst.append(x)
AppendIfAbsent(lst, x) == IF InList(x, lst) THEN lst ELSE Append(lst, x)

\* if x in lst: lst.remove(x)
RemoveIfPresent(lst, x) == IF InList(x, lst) THEN ListRemove(lst, x) ELSE lst

\* d[k] = v on a dict d (a function over its keys)
DictPut(d, k, v) == [x \in DOMAIN d \cup {k} |-> IF x = k THEN v ELSE d[x]]

\* d.get(k, default)
DictGet(d, k, default) == IF k \in DOMAIN d THEN d[k] ELSE default

\* The empty dict
EmptyDict == [x \in {} |-> 0]

\* Keys of a dict filled by assigning ks[1], ks[2], ... in order: insertion
\* order, a repeated key keeps its first place.
RECURSIVE InsertionOrder(_)
InsertionOrder(ks) ==
    IF ks = <<>> THEN <<>>
    ELSE LET front == InsertionOrder(SubSeq(ks, 1, Len(ks) - 1))
             k == ks[Len(ks)]
         IN  IF InList(k, front) THEN front ELSE Append(front, k)

\* sum(d.values())
RECURSIVE DictSum(_)
DictSum(d) ==
    IF DOMAIN d = {} THEN 0
    ELSE LET k == CHOOSE x \in DOMAIN d : TRUE
         IN  d[k] + DictSum([x \in DOMAIN d \ {k} |-> d[x]])

(* ------------------------------------------------------------------ *)
(* State                                                               *)
(* ------------------------------------------------------------------ *)

VARIABLES
    configured,            \* camera ids with a record in config_manager.configurations
    processor,             \* TRUE once a FlexibleMultiCameraProcessor exists
    camera_streams,        \* keys of processor.camera_streams
    enabled_use_cases,     \* per camera: the list object config['enabled_use_cases'];
                           \* FlexibleCameraStream.__init__ keeps a reference to it
    available_use_cases,   \* per camera: the list object config['available_use_cases'],
                           \* shared with the stream in the same way
    camera_models,         \* per camera: keys of self.camera_models, insertion order
    model_enabled,         \* per camera: the dict self.model_enabled
    stats,                 \* per camera: self.stats
    cap,                   \* per camera: "none" (self.cap is None), "open",
                           \* "unopened" (isOpened() is False), "closed" (released)
    stream_frames,         \* per camera: frames the stream at stream_url delivers
    frame_count,           \* per camera: self.frame_count
    running,               \* processor.running
    pc,                    \* per camera: position of _camera_processing_worker
    enabled_models,        \* per camera: process_frame's local snapshot (keys)
    todo,                  \* per camera: use cases of the snapshot still to run
    all_events,            \* per camera: process_frame's local all_events
    total_events,          \* per camera: process_frame's local total_events
    result,                \* per camera: what process_frame returned to the worker
    event_queue,           \* processor.event_queue (items)
    unfinished_tasks,      \* the queue's unfinished task count
    global_stats,          \* processor.global_stats
    saver_pc,              \* position of _event_saving_worker
    saving,                \* the item _event_saving_worker holds
    lock,                  \* per camera: who holds self.lock, "free" when nobody
    status_at,             \* the camera whose get_stats a status request is in
    status_ret,            \* what get_stats returned last
    inference_calls,       \* per camera: calls of the shared model made for the cycle
                           \* in flight (0 between cycles)
    loaded_total,          \* per camera: the value its worker's "+=" has read from
                           \* global_stats['total_events'] and not yet written back
    call_ret,              \* value returned by the last enable/disable call
    stop_pc,               \* per caller of stop(): its position in stop()
    released               \* times stop() released the uploader and the database

\* History variables: they record what happened, no operation reads them.
VARIABLES
    last_call,             \* the last enable/disable call and the enabled list before it
    prev_call,             \* the call before last_call
    last_ok,               \* per camera and use case: the last call that returned success
    must_list,             \* per camera: use cases the cycle in flight has to list
    must_not_list,         \* per camera: use cases the cycle in flight must not list
    lock_view,             \* per camera: flags that were true when the snapshot was taken
    invoked,               \* per camera: capabilities run in the cycle in flight
    quiet,                 \* per camera: every capability was disabled (by a
                           \* call or by configuration) at the snapshot in flight
    last_emitted,          \* per camera: frame_count of the last result returned
    stop_on_stopped,       \* per caller of stop(): its call began when nothing ran
    raised,                \* per camera: capabilities that raised in the cycle in flight
    reported,              \* per camera: detections each capability returned in it
    soft_misses,           \* per camera: failed reads in a row the worker has logged
    dropped                \* results whose save failed and was logged

pvars == <<configured, processor, camera_streams, enabled_use_cases,
           available_use_cases, camera_models, model_enabled, stats, cap,
           stream_frames, frame_count, running, pc, enabled_models, todo, all_events,
           total_events, result, event_queue, unfinished_tasks, global_stats,
           saver_pc, saving, call_ret,
          stop_pc, released, lock, status_at, status_ret, inference_calls,
          loaded_total>>

hvars == <<last_call, prev_call, last_ok, must_list, must_not_list, lock_view, invoked,
           quiet, last_emitted,
          stop_on_stopped, raised, reported, soft_misses, dropped>>

vars == <<pvars, hvars>>

\* Groups used in UNCHANGED clauses.
apiVars == <<configured, processor, camera_streams, stream_frames>>
cycleVars == <<enabled_models, todo, all_events, total_events, result,
              inference_calls>>
stopVars == <<stop_pc, released>>
statusVars == <<lock, status_at, status_ret>>
raceVars == <<loaded_total>>
queueVars == <<event_queue, unfinished_tasks, global_stats, saver_pc, saving>>

\* "no result": process_frame returned (False, None)
NoResult ==
    [camera_id |-> "none", enabled_use_cases |-> <<>>, frame_count |-> 0,
     all_events |-> EmptyDict, total_events |-> 0, has_events |-> FALSE]

\* self.stats as set by FlexibleCameraStream.__init__
InitStats ==
    [frames_processed |-> 0,
     events_detected_by_use_case |-> [u \in UseCaseIds |-> 0],
     connection_status |-> "disconnected",
     enabled_models |-> <<>>]

\* global_stats as set by FlexibleMultiCameraProcessor.__init__
InitGlobalStats ==
    [total_cameras |-> 0, active_cameras |-> 0, total_events |-> 0,
     events_by_camera |-> [c \in CameraIds |-> 0],
     events_by_use_case |-> [u \in UseCaseIds |-> 0]]

\* No status was read yet.
NoStatus == [camera_id |-> "none", enabled_use_cases |-> <<>>,
             connection_status |-> "none", frames_processed |-> 0,
             total_events |-> 0, frame_count |-> 0]

NoCall == [op |-> "none", camera_id |-> "none", use_case |-> "none",
           ret |-> FALSE, before |-> <<>>]

\* The state before any configuration is loaded: cfgs gives, for each
\* configured camera, the two lists of its configuration record and the
\* length of the stream behind its stream_url.
InitWith(cfgs) ==
    /\ configured = DOMAIN cfgs
    /\ processor = FALSE
    /\ camera_streams = {}
    /\ enabled_use_cases =
           [c \in CameraIds |-> IF c \in DOMAIN cfgs THEN cfgs[c].enabled ELSE <<>>]
    /\ available_use_cases =
           [c \in CameraIds |-> IF c \in DOMAIN cfgs THEN cfgs[c].available ELSE <<>>]
    /\ camera_models = [c \in CameraIds |-> <<>>]
    /\ model_enabled = [c \in CameraIds |-> EmptyDict]
    /\ stats = [c \in CameraIds |-> InitStats]
    /\ cap = [c \in CameraIds |-> "none"]
    /\ stream_frames =
           [c \in CameraIds |-> IF c \in DOMAIN cfgs THEN cfgs[c].frames ELSE 0]
    /\ frame_count = [c \in CameraIds |-> 0]
    /\ running = FALSE
    /\ pc = [c \in CameraIds |-> "idle"]
    /\ enabled_models = [c \in CameraIds |-> <<>>]
    /\ todo = [c \in CameraIds |-> <<>>]
    /\ all_events = [c \in CameraIds |-> EmptyDict]
    /\ total_events = [c \in CameraIds |-> 0]
    /\ result = [c \in CameraIds |-> NoResult]
    /\ event_queue = <<>>
    /\ unfinished_tasks = 0
    /\ global_stats = InitGlobalStats
    /\ saver_pc = "idle"
    /\ saving = NoResult
    /\ call_ret = FALSE
    /\ stop_pc = [k \in StopCallers |-> "idle"]
    /\ released = 0
    /\ lock = [c \in CameraIds |-> "free"]
    /\ status_at = "none"
    /\ status_ret = NoStatus
    /\ inference_calls = [c \in CameraIds |-> 0]
    /\ loaded_total = [c \in CameraIds |-> 0]
    /\ last_call = NoCall
    /\ prev_call = NoCall
    /\ last_ok = [c \in CameraIds |-> [u \in UseCaseIds |-> "none"]]
    /\ must_list = [c \in CameraIds |-> {}]
    /\ must_not_list = [c \in CameraIds |-> {}]
    /\ lock_view = [c \in CameraIds |-> {}]
    /\ invoked = [c \in CameraIds |-> {}]
    /\ quiet = [c \in CameraIds |-> FALSE]
    /\ last_emitted = [c \in CameraIds |-> 0]
    /\ stop_on_stopped = [k \in StopCallers |-> FALSE]
    /\ raised = [c \in CameraIds |-> {}]
    /\ reported = [c \in CameraIds |-> EmptyDict]
    /\ soft_misses = [c \in CameraIds |-> 0]
    /\ dropped = 0

(* ------------------------------------------------------------------ *)
(* Loading and initialisation                                          *)
(* ------------------------------------------------------------------ *)

\* start_system / run_flexible_system: construct the processor and call
\* load_camera_configurations with the configuration records.  Each stream
\* keeps the record's two lists by reference, so nothing is copied.
load_camera_configurations ==
    /\ ~processor
    /\ configured # {}
    /\ processor' = TRUE
    /\ camera_streams' = configured
    /\ global_stats' = [global_stats EXCEPT !.total_cameras = Cardinality(configured)]
    /\ UNCHANGED <<configured, stream_frames, stopVars, statusVars, raceVars,
                   enabled_use_cases,
                   available_use_cases, camera_models, model_enabled, stats,
                   cap, frame_count, running, pc, cycleVars, event_queue,
                   unfinished_tasks, saver_pc, saving, call_ret>>

\* The entries of available_use_cases that FlexibleCameraStream.initialize
\* reaches a constructor for: all of them when fail_at = 0, those before
\* position fail_at when the constructor called at fail_at raises.
ConstructedPrefix(av, fail_at) ==
    IF fail_at = 0 THEN av ELSE SubSeq(av, 1, fail_at - 1)

\* A constructor is called at position i only for a mapped use case.
ConstructorRaises(av, fail_at) ==
    fail_at \in 1..Len(av) /\ av[fail_at] \in CAMERA_MODEL_MAPPING

\* self.camera_models keys after initialize
ModelsAfterInitialize(av, fail_at) ==
    LET upto == IF ConstructorRaises(av, fail_at)
                THEN ConstructedPrefix(av, fail_at) ELSE av
    IN  InsertionOrder(SelectSeq(upto, LAMBDA u : u \in CAMERA_MODEL_MAPPING))

\* self.model_enabled after initialize
FlagsAfterInitialize(av, en, fail_at) ==
    [u \in ListSet(ModelsAfterInitialize(av, fail_at)) |-> InList(u, en)]

\* Variant: a camera counts as active once its initialize succeeded, whether
\* or not its connect did.
InitializeCameraCountsInitialized(c, fail_at, conn) ==
    LET av == available_use_cases[c]
        en == enabled_use_cases[c]
        ok == ~ConstructorRaises(av, fail_at)
        st1 == IF ok THEN [stats[c] EXCEPT !.enabled_models = en] ELSE stats[c]
        st2 == IF ok THEN [st1 EXCEPT !.connection_status = conn] ELSE st1
    IN  [models |-> ModelsAfterInitialize(av, fail_at),
         flags |-> FlagsAfterInitialize(av, en, fail_at),
         stats |-> st2,
         cap |-> IF ok /\ conn = "connected" THEN "open"
                 ELSE IF ok /\ conn = "failed" THEN "unopened"
                 ELSE "none",
         active |-> ok]

\* FlexibleCameraStream.initialize followed by connect, as
\* FlexibleMultiCameraProcessor.initialize calls them for one camera.
\* Gives the camera's new <<camera_models, model_enabled, stats, cap>>.
InitializeCamera(c, fail_at, conn) ==
    LET av == available_use_cases[c]
        en == enabled_use_cases[c]
        ok == ~ConstructorRaises(av, fail_at)
        st1 == IF ok THEN [stats[c] EXCEPT !.enabled_models = en] ELSE stats[c]
        st2 == IF ok THEN [st1 EXCEPT !.connection_status = conn] ELSE st1
    IN  [models |-> ModelsAfterInitialize(av, fail_at),
         flags |-> FlagsAfterInitialize(av, en, fail_at),
         stats |-> st2,
         cap |-> IF ok /\ conn = "connected" THEN "open"
                 ELSE IF ok /\ conn = "failed" THEN "unopened"
                 ELSE "none",
         active |-> ok /\ conn = "connected"]

\* start_processing up to the point where the threads run: initialize()
\* (database connect, then every stream's initialize and connect), then
\* running = True, the event saving thread and one worker thread per entry
\* of camera_streams.  db_ok = FALSE is the RuntimeError of a failed
\* database connect, which leaves start_processing before anything is set.
start_processing(db_ok, fail_at, conn) ==
    /\ processor
    /\ ~running
    /\ saver_pc = "idle"
    /\ \A c \in camera_streams : pc[c] = "idle"
    /\ IF ~db_ok
       THEN UNCHANGED <<camera_models, model_enabled, stats, cap, running, pc,
                        saver_pc, global_stats>>
       ELSE /\ camera_models' =
                   [c \in CameraIds |->
                       IF c \in camera_streams
                       THEN InitializeCamera(c, fail_at[c], conn[c]).models
                       ELSE camera_models[c]]
            /\ model_enabled' =
                   [c \in CameraIds |->
                       IF c \in camera_streams
                       THEN InitializeCamera(c, fail_at[c], conn[c]).flags
                       ELSE model_enabled[c]]
            /\ stats' =
                   [c \in CameraIds |->
                       IF c \in camera_streams
                       THEN InitializeCamera(c, fail_at[c], conn[c]).stats
                       ELSE stats[c]]
            /\ cap' =
                   [c \in CameraIds |->
                       IF c \in camera_streams
                       THEN InitializeCamera(c, fail_at[c], conn[c]).cap
                       ELSE cap[c]]
            /\ global_stats' =
                   [global_stats EXCEPT !.active_cameras =
                       Cardinality({c \in camera_streams :
                           InitializeCamera(c, fail_at[c], conn[c]).active})]
            /\ running' = TRUE
            /\ saver_pc' = "get"
            /\ pc' = [c \in CameraIds |->
                         IF c \in camera_streams THEN "loop" ELSE pc[c]]
    /\ UNCHANGED <<apiVars, stopVars, statusVars, raceVars, enabled_use_cases, available_use_cases, frame_count,
                   cycleVars, event_queue, unfinished_tasks, saving, call_ret>>

(* ------------------------------------------------------------------ *)
(* Enabling and disabling use cases                                    *)
(* ------------------------------------------------------------------ *)

\* Variant: enable_use_case without the test "use_case in self.camera_models".
enable_use_case_unchecked(c, use_case) ==
    /\ model_enabled' = [model_enabled EXCEPT ![c] = DictPut(@, use_case, TRUE)]
    /\ enabled_use_cases' =
           [enabled_use_cases EXCEPT ![c] = AppendIfAbsent(@, use_case)]
    /\ stats' = [stats EXCEPT ![c].enabled_models =
                    AppendIfAbsent(enabled_use_cases[c], use_case)]
    /\ call_ret' = TRUE
    /\ UNCHANGED <<apiVars, stopVars, statusVars, raceVars, available_use_cases, camera_models, cap, frame_count,
                   running, pc, cycleVars, queueVars>>

\* Variant: enable_use_case that updates the list and not the flag.
enable_use_case_list_only(c, use_case) ==
    /\ IF InList(use_case, camera_models[c])
       THEN /\ enabled_use_cases' =
                   [enabled_use_cases EXCEPT ![c] = AppendIfAbsent(@, use_case)]
            /\ stats' = [stats EXCEPT ![c].enabled_models =
                            AppendIfAbsent(enabled_use_cases[c], use_case)]
            /\ call_ret' = TRUE
            /\ UNCHANGED model_enabled
       ELSE /\ UNCHANGED <<model_enabled, enabled_use_cases, stats>>
            /\ call_ret' = FALSE
    /\ UNCHANGED <<apiVars, stopVars, statusVars, raceVars, available_use_cases, camera_models, cap, frame_count,
                   running, pc, cycleVars, queueVars>>

\* FlexibleCameraStream.enable_use_case, the whole body under self.lock.
enable_use_case(c, use_case) ==
    /\ lock[c] = "free"
    /\ IF InList(use_case, camera_models[c])
       THEN /\ model_enabled' =
                   [model_enabled EXCEPT ![c] = DictPut(@, use_case, TRUE)]
            /\ enabled_use_cases' =
                   [enabled_use_cases EXCEPT ![c] = AppendIfAbsent(@, use_case)]
            /\ stats' = [stats EXCEPT ![c].enabled_models =
                            AppendIfAbsent(enabled_use_cases[c], use_case)]
            /\ call_ret' = TRUE
       ELSE /\ UNCHANGED <<model_enabled, enabled_use_cases, stats>>
            /\ call_ret' = FALSE
    /\ UNCHANGED <<apiVars, stopVars, statusVars, raceVars, available_use_cases, camera_models, cap, frame_count,
                   running, pc, cycleVars, queueVars>>

\* Variant: disable_use_case that clears the flag and leaves the list.
disable_use_case_flag_only(c, use_case) ==
    /\ IF InList(use_case, camera_models[c])
       THEN /\ model_enabled' =
                   [model_enabled EXCEPT ![c] = DictPut(@, use_case, FALSE)]
            /\ call_ret' = TRUE
            /\ UNCHANGED <<enabled_use_cases, stats>>
       ELSE /\ UNCHANGED <<model_enabled, enabled_use_cases, stats>>
            /\ call_ret' = FALSE
    /\ UNCHANGED <<apiVars, stopVars, statusVars, raceVars, available_use_cases, camera_models, cap, frame_count,
                   running, pc, cycleVars, queueVars>>

\* Variant: disable_use_case that updates the list and leaves the flag.
disable_use_case_list_only(c, use_case) ==
    /\ IF InList(use_case, camera_models[c])
       THEN /\ enabled_use_cases' =
                   [enabled_use_cases EXCEPT ![c] = RemoveIfPresent(@, use_case)]
            /\ stats' = [stats EXCEPT ![c].enabled_models =
                            RemoveIfPresent(enabled_use_cases[c], use_case)]
            /\ call_ret' = TRUE
            /\ UNCHANGED model_enabled
       ELSE /\ UNCHANGED <<model_enabled, enabled_use_cases, stats>>
            /\ call_ret' = FALSE
    /\ UNCHANGED <<apiVars, stopVars, statusVars, raceVars, available_use_cases, camera_models, cap, frame_count,
                   running, pc, cycleVars, queueVars>>

\* FlexibleCameraStream.disable_use_case, the whole body under self.lock.
disable_use_case(c, use_case) ==
    /\ lock[c] = "free"
    /\ IF InList(use_case, camera_models[c])
       THEN /\ model_enabled' =
                   [model_enabled EXCEPT ![c] = DictPut(@, use_case, FALSE)]
            /\ enabled_use_cases' =
                   [enabled_use_cases EXCEPT ![c] = RemoveIfPresent(@, use_case)]
            /\ stats' = [stats EXCEPT ![c].enabled_models =
                            RemoveIfPresent(enabled_use_cases[c], use_case)]
            /\ call_ret' = TRUE
       ELSE /\ UNCHANGED <<model_enabled, enabled_use_cases, stats>>
            /\ call_ret' = FALSE
    /\ UNCHANGED <<apiVars, stopVars, statusVars, raceVars, available_use_cases, camera_models, cap, frame_count,
                   running, pc, cycleVars, queueVars>>

\* A call that finds no stream for camera_id: return False.
\* Variant: a camera_id that is not a key of camera_streams answers True.
NoSuchCameraReturnsSuccess ==
    /\ call_ret' = TRUE
    /\ UNCHANGED <<apiVars, stopVars, statusVars, raceVars, enabled_use_cases, available_use_cases,
                   camera_models, model_enabled, stats, cap, frame_count,
                   running, pc, cycleVars, queueVars>>

NoSuchCamera ==
    /\ call_ret' = FALSE
    /\ UNCHANGED <<apiVars, stopVars, statusVars, raceVars, enabled_use_cases, available_use_cases,
                   camera_models, model_enabled, stats, cap, frame_count,
                   running, pc, cycleVars, queueVars>>

\* FlexibleMultiCameraProcessor.enable_use_case_for_camera
enable_use_case_for_camera(camera_id, use_case) ==
    /\ processor
    /\ IF camera_id \in camera_streams
       THEN enable_use_case(camera_id, use_case)
       ELSE NoSuchCamera

\* FlexibleMultiCameraProcessor.disable_use_case_for_camera
disable_use_case_for_camera(camera_id, use_case) ==
    /\ processor
    /\ IF camera_id \in camera_streams
       THEN disable_use_case(camera_id, use_case)
       ELSE NoSuchCamera

\* The lists of the configuration record after toggle_use_case has updated
\* them and before it turns to the processor.
ToggledEnabled(c, use_case, enabled) ==
    IF enabled THEN AppendIfAbsent(enabled_use_cases[c], use_case)
    ELSE RemoveIfPresent(enabled_use_cases[c], use_case)

ToggledAvailable(c, use_case, enabled) ==
    IF enabled THEN AppendIfAbsent(available_use_cases[c], use_case)
    ELSE available_use_cases[c]

\* The same list after the forwarded enable_use_case / disable_use_case has
\* run on it.
ForwardedEnabled(c, use_case, enabled) ==
    IF enabled THEN AppendIfAbsent(ToggledEnabled(c, use_case, enabled), use_case)
    ELSE RemoveIfPresent(ToggledEnabled(c, use_case, enabled), use_case)

\* POST /api/cameras/{camera_id}/use-cases (toggle_use_case) for a camera
\* that has a configuration record: update the record's lists, then forward
\* to the processor when there is one.  The stream's enabled_use_cases is
\* the record's list, so the forwarded call sees the list already updated.
toggle_use_case(c, use_case, enabled) ==
    /\ c \in configured
    /\ available_use_cases' =
           [available_use_cases EXCEPT ![c] = ToggledAvailable(c, use_case, enabled)]
    /\ IF processor /\ c \in camera_streams /\ InList(use_case, camera_models[c])
       THEN /\ model_enabled' =
                   [model_enabled EXCEPT ![c] = DictPut(@, use_case, enabled)]
            /\ enabled_use_cases' =
                   [enabled_use_cases EXCEPT ![c] = ForwardedEnabled(c, use_case, enabled)]
            /\ stats' = [stats EXCEPT ![c].enabled_models =
                            ForwardedEnabled(c, use_case, enabled)]
            /\ call_ret' = TRUE
       ELSE /\ enabled_use_cases' =
                   [enabled_use_cases EXCEPT ![c] = ToggledEnabled(c, use_case, enabled)]
            /\ UNCHANGED <<model_enabled, stats>>
            /\ call_ret' = IF processor THEN FALSE ELSE call_ret
    /\ UNCHANGED <<apiVars, stopVars, statusVars, raceVars, camera_models, cap, frame_count, running, pc,
                   cycleVars, queueVars>>

(* ------------------------------------------------------------------ *)
(* The camera worker thread                                            *)
(* ------------------------------------------------------------------ *)

\* The worker leaves its loop: camera_stream.disconnect().
WorkerExit(c) ==
    /\ pc' = [pc EXCEPT ![c] = "stopped"]
    /\ cap' = [cap EXCEPT ![c] = IF @ = "none" THEN "none" ELSE "closed"]
    /\ stats' = [stats EXCEPT ![c].connection_status =
                    IF cap[c] = "none" THEN @ ELSE "disconnected"]
    /\ UNCHANGED <<frame_count, all_events, total_events, inference_calls>>

\* process_frame gets no frame: self.cap is None or not opened, or
\* cap.read() answers ret = False (read_ok is its answer while the stream
\* lasts).
ReadFails(c, read_ok) ==
    cap[c] # "open" \/ ~read_ok \/ frame_count[c] >= stream_frames[c]

\* Variant: the frame counter is advanced before the read is tested.
SoftMissCountsFrame(c) ==
    /\ frame_count' = [frame_count EXCEPT ![c] = @ + 1]
    /\ UNCHANGED <<pc, cap, stats, all_events, total_events, inference_calls>>

\* process_frame returns (False, None) before reading a frame; the worker
\* sleeps and comes back to the top of its loop.
SoftMiss(c) ==
    UNCHANGED <<pc, cap, stats, frame_count, all_events, total_events,
                inference_calls>>

\* Variant: a frame is read and frame_count is left as it was.
FrameReadNoCount(c, infer_ok) ==
    /\ inference_calls' = [inference_calls EXCEPT ![c] = IF infer_ok THEN 1 ELSE 0]
    /\ pc' = [pc EXCEPT ![c] = IF infer_ok THEN "snapshot" ELSE "loop"]
    /\ all_events' = [all_events EXCEPT ![c] = EmptyDict]
    /\ total_events' = [total_events EXCEPT ![c] = 0]
    /\ UNCHANGED <<cap, stats, frame_count>>

\* A frame was read: frame_count += 1, then the shared model runs once.  If
\* it raises, process_frame returns (False, None) and the worker loops: the
\* cycle is over and no call of the shared model is in flight for it.
FrameRead(c, infer_ok) ==
    /\ frame_count' = [frame_count EXCEPT ![c] = @ + 1]
    /\ inference_calls' = [inference_calls EXCEPT ![c] = IF infer_ok THEN 1 ELSE 0]
    /\ pc' = [pc EXCEPT ![c] = IF infer_ok THEN "snapshot" ELSE "loop"]
    /\ all_events' = [all_events EXCEPT ![c] = EmptyDict]
    /\ total_events' = [total_events EXCEPT ![c] = 0]
    /\ UNCHANGED <<cap, stats>>

\* _camera_processing_worker at the top of its loop: test self.running,
\* then process_frame up to the shared model's result.  read_ok is what
\* cap.read() answers; it answers False once the stream has ended.
worker_loop(c, read_ok, infer_ok) ==
    /\ pc[c] = "loop"
    /\ IF ~running THEN WorkerExit(c)
       ELSE IF ReadFails(c, read_ok)
            THEN SoftMiss(c)
            ELSE FrameRead(c, infer_ok)
    /\ UNCHANGED <<apiVars, stopVars, statusVars, raceVars, enabled_use_cases, available_use_cases,
                   camera_models, model_enabled, running, enabled_models, todo,
                   result, queueVars, call_ret>>

\* The keys of camera_models whose flag is set, in dict order.
EnabledSnapshot(c) ==
    SelectSeq(camera_models[c], LAMBDA u : DictGet(model_enabled[c], u, FALSE))

\* Variant: the with-block of the snapshot is not left before the fan-out;
\* the worker holds self.lock while the capabilities run.
process_frame_snapshot_keeps_lock(c) ==
    /\ pc[c] = "snapshot"
    /\ lock[c] = "free"
    /\ lock' = [lock EXCEPT ![c] = "worker"]
    /\ enabled_models' = [enabled_models EXCEPT ![c] = EnabledSnapshot(c)]
    /\ todo' = [todo EXCEPT ![c] = EnabledSnapshot(c)]
    /\ pc' = [pc EXCEPT ![c] = "fanout"]
    /\ UNCHANGED <<inference_calls, apiVars, stopVars, status_at, status_ret, raceVars, enabled_use_cases,
                   available_use_cases, camera_models, model_enabled, stats,
                   cap, frame_count, running, all_events, total_events, result,
                   queueVars, call_ret>>

\* process_frame: "with self.lock: enabled_models = {...}".  The block is
\* entered when the lock is free and left before the fan-out.
process_frame_snapshot(c) ==
    /\ pc[c] = "snapshot"
    /\ lock[c] = "free"
    /\ enabled_models' = [enabled_models EXCEPT ![c] = EnabledSnapshot(c)]
    /\ todo' = [todo EXCEPT ![c] = EnabledSnapshot(c)]
    /\ pc' = [pc EXCEPT ![c] = "fanout"]
    /\ UNCHANGED <<inference_calls, apiVars, stopVars, statusVars, raceVars, enabled_use_cases, available_use_cases,
                   camera_models, model_enabled, stats, cap, frame_count,
                   running, all_events, total_events, result, queueVars,
                   call_ret>>

\* The use case the fan-out loop runs next.
NextUseCase(c) == Head(todo[c])

\* Variant: an error raised by a capability ends the fan-out; the result is
\* built from what the capabilities before it returned.
process_frame_model_stops_at_error(c, detections) ==
    /\ pc[c] = "fanout"
    /\ todo[c] # <<>>
    /\ todo' = [todo EXCEPT ![c] = IF detections = -1 THEN <<>> ELSE Tail(@)]
    /\ IF detections > 0
       THEN /\ all_events' =
                   [all_events EXCEPT ![c] = DictPut(@, NextUseCase(c), detections)]
            /\ total_events' = [total_events EXCEPT ![c] = @ + detections]
            /\ stats' = [stats EXCEPT
                   ![c].events_detected_by_use_case[NextUseCase(c)] = @ + detections]
       ELSE UNCHANGED <<all_events, total_events, stats>>
    /\ UNCHANGED <<inference_calls, apiVars, stopVars, statusVars, raceVars, enabled_use_cases, available_use_cases,
                   camera_models, model_enabled, cap, frame_count, running, pc,
                   enabled_models, result, queueVars, call_ret>>

\* Variant: "total_events = detection_count" in place of "+=": the total is
\* the count of the last use case that returned detections.
process_frame_model_total_overwritten(c, detections) ==
    /\ pc[c] = "fanout"
    /\ todo[c] # <<>>
    /\ todo' = [todo EXCEPT ![c] = Tail(@)]
    /\ IF detections > 0
       THEN /\ all_events' =
                   [all_events EXCEPT ![c] = DictPut(@, NextUseCase(c), detections)]
            /\ total_events' = [total_events EXCEPT ![c] = detections]
            /\ stats' = [stats EXCEPT
                   ![c].events_detected_by_use_case[NextUseCase(c)] = @ + detections]
       ELSE UNCHANGED <<all_events, total_events, stats>>
    /\ UNCHANGED <<inference_calls, apiVars, stopVars, statusVars, raceVars, enabled_use_cases, available_use_cases,
                   camera_models, model_enabled, cap, frame_count, running, pc,
                   enabled_models, result, queueVars, call_ret>>

\* Variant: the fan-out runs the shared model again for each capability
\* instead of handing it detection_result.
process_frame_model_runs_inference(c, detections) ==
    /\ pc[c] = "fanout"
    /\ todo[c] # <<>>
    /\ todo' = [todo EXCEPT ![c] = Tail(@)]
    /\ inference_calls' = [inference_calls EXCEPT ![c] = @ + 1]
    /\ IF detections > 0
       THEN /\ all_events' =
                   [all_events EXCEPT ![c] = DictPut(@, NextUseCase(c), detections)]
            /\ total_events' = [total_events EXCEPT ![c] = @ + detections]
            /\ stats' = [stats EXCEPT
                   ![c].events_detected_by_use_case[NextUseCase(c)] = @ + detections]
       ELSE UNCHANGED <<all_events, total_events, stats>>
    /\ UNCHANGED <<apiVars, stopVars, statusVars, raceVars, enabled_use_cases,
                   available_use_cases, camera_models, model_enabled, cap,
                   frame_count, running, pc, enabled_models, result, queueVars,
                   call_ret>>

\* process_frame: one iteration of "for use_case, model in enabled_models".
\* detections is the number of detections the capability returns, or -1
\* when it raises (caught and logged inside the loop).
process_frame_model(c, detections) ==
    /\ pc[c] = "fanout"
    /\ todo[c] # <<>>
    /\ todo' = [todo EXCEPT ![c] = Tail(@)]
    /\ IF detections > 0
       THEN /\ all_events' =
                   [all_events EXCEPT ![c] = DictPut(@, NextUseCase(c), detections)]
            /\ total_events' = [total_events EXCEPT ![c] = @ + detections]
            /\ stats' = [stats EXCEPT
                   ![c].events_detected_by_use_case[NextUseCase(c)] = @ + detections]
       ELSE UNCHANGED <<all_events, total_events, stats>>
    /\ UNCHANGED <<inference_calls, apiVars, stopVars, statusVars, raceVars, enabled_use_cases, available_use_cases,
                   camera_models, model_enabled, cap, frame_count, running, pc,
                   enabled_models, result, queueVars, call_ret>>

\* Variant: the result lists self.enabled_use_cases as it is when the result
\* is built, not the keys of the snapshot.
FrameResultLiveList(c) ==
    [camera_id |-> c,
     enabled_use_cases |-> enabled_use_cases[c],
     frame_count |-> frame_count[c],
     all_events |-> all_events[c],
     total_events |-> total_events[c],
     has_events |-> DOMAIN all_events[c] # {}]

\* Variant: has_events says whether any capability was run on the frame.
FrameResultHasEventsIfRun(c) ==
    [camera_id |-> c,
     enabled_use_cases |-> enabled_models[c],
     frame_count |-> frame_count[c],
     all_events |-> all_events[c],
     total_events |-> total_events[c],
     has_events |-> enabled_models[c] # <<>>]

\* The result dict process_frame builds.
FrameResult(c) ==
    [camera_id |-> c,
     enabled_use_cases |-> enabled_models[c],
     frame_count |-> frame_count[c],
     all_events |-> all_events[c],
     total_events |-> total_events[c],
     has_events |-> DOMAIN all_events[c] # {}]

\* Variant: the worker looks at self.running again after the fan-out and
\* gives the cycle up when stop() was called in between.
process_frame_return_checks_running(c) ==
    /\ pc[c] = "fanout"
    /\ todo[c] = <<>>
    /\ lock[c] = "free"
    /\ IF running
       THEN /\ stats' = [stats EXCEPT ![c].frames_processed = @ + 1]
            /\ result' = [result EXCEPT ![c] = FrameResult(c)]
            /\ pc' = [pc EXCEPT ![c] = "emit"]
       ELSE /\ pc' = [pc EXCEPT ![c] = "loop"]
            /\ UNCHANGED <<stats, result>>
    /\ enabled_models' = [enabled_models EXCEPT ![c] = <<>>]
    /\ all_events' = [all_events EXCEPT ![c] = EmptyDict]
    /\ total_events' = [total_events EXCEPT ![c] = 0]
    /\ UNCHANGED <<inference_calls, apiVars, stopVars, statusVars, raceVars, enabled_use_cases,
                   available_use_cases, camera_models, model_enabled, cap,
                   frame_count, running, todo, queueVars, call_ret>>

\* process_frame after the loop: the statistics update under self.lock and
\* "return True, result".
process_frame_return(c) ==
    /\ pc[c] = "fanout"
    /\ todo[c] = <<>>
    /\ lock[c] = "free"
    /\ stats' = [stats EXCEPT ![c].frames_processed = @ + 1]
    /\ result' = [result EXCEPT ![c] = FrameResult(c)]
    /\ enabled_models' = [enabled_models EXCEPT ![c] = <<>>]
    /\ all_events' = [all_events EXCEPT ![c] = EmptyDict]
    /\ total_events' = [total_events EXCEPT ![c] = 0]
    /\ pc' = [pc EXCEPT ![c] = "emit"]
    /\ UNCHANGED <<inference_calls, apiVars, stopVars, statusVars, raceVars, enabled_use_cases, available_use_cases,
                   camera_models, model_enabled, cap, frame_count, running,
                   todo, queueVars, call_ret>>

\* global_stats after the worker has counted result r of camera c.
CountedStats(c, r) ==
    [global_stats EXCEPT
        !.total_events = @ + r.total_events,
        !.events_by_camera[c] = @ + r.total_events,
        !.events_by_use_case =
            [u \in UseCaseIds |->
                IF InList(u, r.enabled_use_cases) /\ u \in DOMAIN r.all_events
                THEN @[u] + 1 ELSE @[u]]]

\* Variant: put on a queue.Queue(maxsize=EVENT_QUEUE_SIZE), which blocks
\* while the queue is full.
QueuePutBounded(r) ==
    /\ Len(event_queue) < EVENT_QUEUE_SIZE
    /\ event_queue' = Append(event_queue, r)
    /\ unfinished_tasks' = unfinished_tasks + 1

\* event_queue.put(result) on the queue.Queue() of __init__ (no maxsize).
QueuePut(r) ==
    /\ event_queue' = Append(event_queue, r)
    /\ unfinished_tasks' = unfinished_tasks + 1

\* Variant: every result process_frame returns is put on the queue, with
\* or without events.
worker_queue_events_all(c) ==
    /\ pc[c] = "emit"
    /\ QueuePut(result[c])
    /\ global_stats' = CountedStats(c, result[c])
    /\ result' = [result EXCEPT ![c] = NoResult]
    /\ inference_calls' = [inference_calls EXCEPT ![c] = 0]
    /\ pc' = [pc EXCEPT ![c] = "loop"]
    /\ UNCHANGED <<apiVars, stopVars, statusVars, raceVars, enabled_use_cases,
                   available_use_cases, camera_models, model_enabled, stats,
                   cap, frame_count, running, enabled_models, todo, all_events,
                   total_events, saver_pc, saving, call_ret>>

\* _camera_processing_worker after process_frame returned a result:
\* "if success and result and result['has_events']" put it on the queue and
\* count it, then sleep and go back to the top of the loop.
worker_queue_events(c) ==
    /\ pc[c] = "emit"
    /\ IF result[c].has_events
       THEN /\ QueuePut(result[c])
            /\ global_stats' = CountedStats(c, result[c])
       ELSE UNCHANGED <<event_queue, unfinished_tasks, global_stats>>
    /\ result' = [result EXCEPT ![c] = NoResult]
    /\ inference_calls' = [inference_calls EXCEPT ![c] = 0]
    /\ pc' = [pc EXCEPT ![c] = "loop"]
    /\ UNCHANGED <<apiVars, stopVars, statusVars, raceVars, enabled_use_cases, available_use_cases,
                   camera_models, model_enabled, stats, cap, frame_count,
                   running, enabled_models, todo, all_events, total_events,
                   saver_pc, saving, call_ret>>

\* The statements of the hand-over taken one at a time, as two worker
\* threads run them: "global_stats['total_events'] += n" reads the entry,
\* adds, and writes it back, and another thread can run in between.

\* The worker puts a result with events on the queue and its "+=" reads
\* global_stats['total_events'].
worker_put_and_load(c) ==
    /\ pc[c] = "emit"
    /\ result[c].has_events
    /\ QueuePut(result[c])
    /\ loaded_total' = [loaded_total EXCEPT ![c] = global_stats.total_events]
    /\ pc' = [pc EXCEPT ![c] = "count"]
    /\ UNCHANGED <<apiVars, stopVars, statusVars, enabled_use_cases,
                   available_use_cases, camera_models, model_enabled, stats,
                   cap, frame_count, running, cycleVars, global_stats,
                   saver_pc, saving, call_ret>>

\* The "+=" writes the sum back; the per-camera and per-use-case counts
\* follow, then the worker sleeps and goes back to the top of its loop.
worker_store_counts(c) ==
    /\ pc[c] = "count"
    /\ global_stats' =
           [CountedStats(c, result[c]) EXCEPT
               !.total_events = loaded_total[c] + result[c].total_events]
    /\ loaded_total' = [loaded_total EXCEPT ![c] = 0]
    /\ result' = [result EXCEPT ![c] = NoResult]
    /\ inference_calls' = [inference_calls EXCEPT ![c] = 0]
    /\ pc' = [pc EXCEPT ![c] = "loop"]
    /\ UNCHANGED <<apiVars, stopVars, statusVars, enabled_use_cases,
                   available_use_cases, camera_models, model_enabled, stats,
                   cap, frame_count, running, enabled_models, todo, all_events,
                   total_events, event_queue, unfinished_tasks, saver_pc,
                   saving, call_ret>>

(* ------------------------------------------------------------------ *)
(* The event saving thread                                             *)
(* ------------------------------------------------------------------ *)

\* _event_saving_worker: the loop test and event_queue.get(timeout=1.0).
\* With an empty queue the get times out and the loop goes round.
event_saving_get ==
    /\ saver_pc = "get"
    /\ IF event_queue # <<>>
       THEN /\ saving' = Head(event_queue)
            /\ event_queue' = Tail(event_queue)
            /\ saver_pc' = "save"
       ELSE /\ saver_pc' = IF running THEN "get" ELSE "stopped"
            /\ UNCHANGED <<saving, event_queue>>
    /\ UNCHANGED <<apiVars, stopVars, statusVars, raceVars, enabled_use_cases, available_use_cases,
                   camera_models, model_enabled, stats, cap, frame_count,
                   running, pc, cycleVars, unfinished_tasks, global_stats,
                   call_ret>>

\* Variant: an error of the upload or of the database insert leaves
\* _save_camera_event; the worker's "except Exception" logs it and
\* task_done() is skipped.
event_saving_save_error_escapes(save_ok) ==
    /\ saver_pc = "save"
    /\ saving' = NoResult
    /\ unfinished_tasks' = IF save_ok THEN unfinished_tasks - 1
                           ELSE unfinished_tasks
    /\ saver_pc' = "get"
    /\ UNCHANGED <<apiVars, stopVars, statusVars, raceVars, enabled_use_cases,
                   available_use_cases, camera_models, model_enabled, stats,
                   cap, frame_count, running, pc, cycleVars, event_queue,
                   global_stats, call_ret>>

\* _event_saving_worker: _save_camera_event(result), which catches its own
\* errors, then event_queue.task_done().  save_ok says whether the upload
\* and the database insert went through.
event_saving_save(save_ok) ==
    /\ saver_pc = "save"
    /\ saving' = NoResult
    /\ unfinished_tasks' = unfinished_tasks - 1
    /\ saver_pc' = "get"
    /\ UNCHANGED <<apiVars, stopVars, statusVars, raceVars, enabled_use_cases, available_use_cases,
                   camera_models, model_enabled, stats, cap, frame_count,
                   running, pc, cycleVars, event_queue, global_stats, call_ret>>

(* ------------------------------------------------------------------ *)
(* Status reads                                                        *)
(* ------------------------------------------------------------------ *)

\* The dict get_stats builds under self.lock.
StatsSnapshot(c) ==
    [camera_id |-> c,
     enabled_use_cases |-> enabled_use_cases[c],
     connection_status |-> stats[c].connection_status,
     frames_processed |-> stats[c].frames_processed,
     total_events |-> DictSum(stats[c].events_detected_by_use_case),
     frame_count |-> frame_count[c]]

\* get_camera_status(c) / one round of get_all_camera_status: get_stats of
\* camera c enters "with self.lock", which waits until the lock is free.
get_stats_acquire(c) ==
    /\ processor
    /\ c \in camera_streams
    /\ status_at = "none"
    /\ lock[c] = "free"
    /\ lock' = [lock EXCEPT ![c] = "status"]
    /\ status_at' = c
    /\ UNCHANGED <<apiVars, stopVars, status_ret, raceVars, enabled_use_cases,
                   available_use_cases, camera_models, model_enabled, stats,
                   cap, frame_count, running, pc, cycleVars, queueVars,
                   call_ret>>

\* get_stats builds its dict and leaves the with-block.
get_stats_return(c) ==
    /\ status_at = c
    /\ status_ret' = StatsSnapshot(c)
    /\ lock' = [lock EXCEPT ![c] = "free"]
    /\ status_at' = "none"
    /\ UNCHANGED <<apiVars, stopVars, raceVars, enabled_use_cases, available_use_cases,
                   camera_models, model_enabled, stats, cap, frame_count,
                   running, pc, cycleVars, queueVars, call_ret>>

(* ------------------------------------------------------------------ *)
(* stop()                                                              *)
(* ------------------------------------------------------------------ *)

\* What stop() leaves alone at every step but its first and last.
stopFrame == <<apiVars, statusVars, raceVars, enabled_use_cases, available_use_cases, camera_models,
               model_enabled, stats, cap, frame_count, pc, cycleVars,
               queueVars, call_ret>>

\* Every worker thread in processing_threads has finished (none was started
\* when start_processing never ran).
WorkersFinished == \A c \in camera_streams : pc[c] \in {"idle", "stopped"}

\* stop(), first statement: self.running = False.  The thread of
\* start_processing calls it after its monitoring loop, the API on
\* stop_system and on shutdown.
stop_begin(k) ==
    /\ stop_pc[k] = "idle"
    /\ processor
    /\ k = "main" => saver_pc # "idle"
    /\ running' = FALSE
    /\ stop_pc' = [stop_pc EXCEPT ![k] = "join_workers"]
    /\ UNCHANGED <<stopFrame, released>>

\* stop(): thread.join(timeout=5.0) for every worker thread; timed_out says
\* that some join gave up before its thread had finished.
stop_join_workers(k, timed_out) ==
    /\ stop_pc[k] = "join_workers"
    /\ timed_out \/ WorkersFinished
    /\ stop_pc' = [stop_pc EXCEPT ![k] = "join_queue"]
    /\ UNCHANGED <<stopFrame, running, released>>

\* event_queue.join() returns once every item put has been marked done.
QueueJoined == unfinished_tasks = 0

\* stop(): self.event_queue.join().
stop_join_queue(k) ==
    /\ stop_pc[k] = "join_queue"
    /\ QueueJoined
    /\ stop_pc' = [stop_pc EXCEPT ![k] = "release"]
    /\ UNCHANGED <<stopFrame, running, released>>

\* stop(): gcp_uploader.stop() and db_handler.disconnect(), then return.
stop_release(k) ==
    /\ stop_pc[k] = "release"
    /\ released' = released + 1
    /\ stop_pc' = [stop_pc EXCEPT ![k] = "returned"]
    /\ UNCHANGED <<stopFrame, running>>

(* ------------------------------------------------------------------ *)
(* History: what the properties below speak about                      *)
(* ------------------------------------------------------------------ *)

PC == "people_counting"
PPE == "ppe_detection"

\* The enabled_use_cases of cam_001's configuration record in Spec.
RunEnabled == <<PC>>

HistNone == UNCHANGED hvars

\* After an enable/disable call on (c, use_case): remember the call, what it
\* returned and the enabled list it found.
HistCall(op, c, use_case) ==
    /\ last_call' = [op |-> op, camera_id |-> c, use_case |-> use_case,
                     ret |-> call_ret', before |-> enabled_use_cases[c]]
    /\ prev_call' = last_call
    /\ UNCHANGED <<soft_misses, dropped, stop_on_stopped, raised, reported, last_ok, must_list, must_not_list, lock_view, invoked,
                   quiet, last_emitted>>

\* After an enable/disable call on (c, use_case): when it returned success,
\* it is the last successful call on (c, use_case), and a cycle in flight is
\* no longer held to the opposite call that came before it.
HistOk(op, c, use_case) ==
    /\ last_ok' = IF call_ret' THEN [last_ok EXCEPT ![c][use_case] = op]
                  ELSE last_ok
    /\ must_list' = IF call_ret' /\ op = "disable"
                    THEN [must_list EXCEPT ![c] = @ \ {use_case}] ELSE must_list
    /\ must_not_list' = IF call_ret' /\ op = "enable"
                        THEN [must_not_list EXCEPT ![c] = @ \ {use_case}]
                        ELSE must_not_list
    /\ UNCHANGED <<soft_misses, dropped, stop_on_stopped, raised, reported, last_call, prev_call, lock_view, invoked, quiet, last_emitted>>

\* A toggle changes the lists whether or not it reaches the processor: it
\* is remembered as a call of its own.
HistToggle(c, use_case) == HistCall("toggle", c, use_case)

\* A cycle starts when a frame has been read: from here on the cycle is held
\* to the calls that returned before.
HistLoop(c) ==
    IF pc'[c] = "snapshot"
    THEN /\ must_list' = [must_list EXCEPT
                             ![c] = {u \in UseCaseIds : last_ok[c][u] = "enable"}]
         /\ must_not_list' = [must_not_list EXCEPT
                             ![c] = {u \in UseCaseIds : last_ok[c][u] = "disable"}]
         /\ UNCHANGED <<soft_misses, dropped, stop_on_stopped, raised, reported, last_call, prev_call, last_ok, lock_view, invoked, quiet,
                        last_emitted>>
    ELSE HistNone

\* What the flags were while the lock was held for the snapshot, and whether
\* every use case of the camera is disabled by then: the last successful call
\* on it was a disable, or it was configured disabled and never enabled.
HistSnapshot(c) ==
    /\ lock_view' = [lock_view EXCEPT ![c] =
           {u \in DOMAIN model_enabled[c] : model_enabled[c][u]}]
    /\ quiet' = [quiet EXCEPT ![c] =
           \A u \in ListSet(camera_models[c]) :
               \/ last_ok[c][u] = "disable"
               \/ last_ok[c][u] = "none" /\ ~InList(u, RunEnabled)]
    /\ UNCHANGED <<soft_misses, dropped, stop_on_stopped, raised, reported, last_call, prev_call, last_ok, must_list, must_not_list, invoked,
                   last_emitted>>

\* The capability that was run.
HistModel(c) ==
    /\ invoked' = [invoked EXCEPT ![c] = @ \cup {NextUseCase(c)}]
    /\ UNCHANGED <<soft_misses, dropped, stop_on_stopped, raised, reported, last_call, prev_call, last_ok, must_list, must_not_list, lock_view,
                   quiet, last_emitted>>

\* The worker has taken the result: the cycle is over.
HistEmit(c) ==
    /\ last_emitted' = [last_emitted EXCEPT ![c] = result[c].frame_count]
    /\ must_list' = [must_list EXCEPT ![c] = {}]
    /\ must_not_list' = [must_not_list EXCEPT ![c] = {}]
    /\ lock_view' = [lock_view EXCEPT ![c] = {}]
    /\ invoked' = [invoked EXCEPT ![c] = {}]
    /\ quiet' = [quiet EXCEPT ![c] = FALSE]
    /\ raised' = [raised EXCEPT ![c] = {}]
    /\ reported' = [reported EXCEPT ![c] = EmptyDict]
    /\ UNCHANGED <<soft_misses, dropped, stop_on_stopped, last_call, prev_call, last_ok>>

\* Nothing of the orchestrator runs: it was stopped, or never started.
OrchestratorStopped ==
    /\ ~running
    /\ WorkersFinished
    /\ saver_pc \in {"idle", "stopped"}

\* A stop() call begins: remember whether it found the orchestrator stopped.
HistStop(k) ==
    /\ stop_on_stopped' = [stop_on_stopped EXCEPT ![k] = OrchestratorStopped]
    /\ UNCHANGED <<last_call, prev_call, last_ok, must_list, must_not_list,
                   lock_view, invoked, quiet, last_emitted, raised, reported,
                   soft_misses, dropped>>

\* The capability that was run, and what it answered: detections > 0 are
\* events, detections = -1 is an error it raised.
HistModelAnswer(c, detections) ==
    /\ invoked' = [invoked EXCEPT ![c] = @ \cup {NextUseCase(c)}]
    /\ raised' = [raised EXCEPT ![c] =
                      IF detections = -1 THEN @ \cup {NextUseCase(c)} ELSE @]
    /\ reported' = [reported EXCEPT ![c] =
                        IF detections > 0
                        THEN DictPut(@, NextUseCase(c), detections) ELSE @]
    /\ UNCHANGED <<last_call, prev_call, last_ok, must_list, must_not_list,
                   lock_view, quiet, last_emitted, stop_on_stopped,
                   soft_misses, dropped>>

\* The worker's loop has gone round once more: a failed read is one more in
\* a row (counted up to one past CAMERA_RECONNECT_ATTEMPTS), a frame read
\* starts a cycle and ends the row.
HistLoopMiss(c, read_ok) ==
    /\ soft_misses' = [soft_misses EXCEPT ![c] =
           IF ~running THEN @
           ELSE IF ~ReadFails(c, read_ok) THEN 0
           ELSE IF @ <= CAMERA_RECONNECT_ATTEMPTS THEN @ + 1 ELSE @]
    /\ must_list' = IF pc'[c] = "snapshot"
                    THEN [must_list EXCEPT
                             ![c] = {u \in UseCaseIds : last_ok[c][u] = "enable"}]
                    ELSE must_list
    /\ must_not_list' = IF pc'[c] = "snapshot"
                        THEN [must_not_list EXCEPT
                                 ![c] = {u \in UseCaseIds : last_ok[c][u] = "disable"}]
                        ELSE must_not_list
    /\ UNCHANGED <<dropped, stop_on_stopped, raised, reported, last_call,
                   prev_call, last_ok, lock_view, invoked, quiet, last_emitted>>

\* _save_camera_event has returned: a save that failed was logged.
HistSave(save_ok) ==
    /\ dropped' = IF save_ok THEN dropped ELSE dropped + 1
    /\ UNCHANGED <<soft_misses, stop_on_stopped, raised, reported, last_call,
                   prev_call, last_ok, must_list, must_not_list, lock_view,
                   invoked, quiet, last_emitted>>

(* ------------------------------------------------------------------ *)
(* Specifications                                                      *)
(* ------------------------------------------------------------------ *)

\* Steps shared by the specifications.

Load == load_camera_configurations /\ HistNone

Start ==
    /\ start_processing(TRUE, [c \in CameraIds |-> 0],
                        [c \in CameraIds |-> "connected"])
    /\ HistNone

WorkerLoop ==
    \E c \in camera_streams, read_ok \in BOOLEAN, infer_ok \in BOOLEAN :
        worker_loop(c, read_ok, infer_ok) /\ HistLoop(c)

Snapshot == \E c \in camera_streams : process_frame_snapshot(c) /\ HistSnapshot(c)

Model ==
    \E c \in camera_streams, d \in -1..MaxDetections :
        process_frame_model(c, d) /\ HistModel(c)

Return == \E c \in camera_streams : process_frame_return(c) /\ HistNone

QueueEventsOf(c) == worker_queue_events(c) /\ HistEmit(c)

QueueEvents == \E c \in camera_streams : QueueEventsOf(c)

SaverGet == event_saving_get /\ HistNone

SaverSave == \E save_ok \in BOOLEAN : event_saving_save(save_ok) /\ HistNone

\* Spec: camera cam_001 of the sample configuration with two available use
\* cases, one of them enabled, running while enable and disable calls
\* arrive for both.
RunCalls == {PC, PPE}

Init ==
    InitWith([c \in {"cam_001"} |->
                 [available |-> <<PC, PPE>>, enabled |-> RunEnabled,
                  frames |-> CycleFrames]])

Enable ==
    \E c \in camera_streams, u \in RunCalls :
        enable_use_case_for_camera(c, u) /\ HistOk("enable", c, u)

Disable ==
    \E c \in camera_streams, u \in RunCalls :
        disable_use_case_for_camera(c, u) /\ HistOk("disable", c, u)

Next ==
    \/ Load
    \/ Start
    \/ Enable
    \/ Disable
    \/ WorkerLoop
    \/ Snapshot
    \/ Model
    \/ Return
    \/ QueueEvents
    \/ SaverGet
    \/ SaverSave

Spec == Init /\ [][Next]_vars

\* SpecControl: the control calls alone, on every configuration record the
\* API accepts for cam_001 (create_camera checks neither list), before and
\* after start_processing.  The camera's connect fails, so its worker and
\* the event saving thread find nothing to do and their steps change nothing.
ControlAvailable == {<<PC, PPE>>}

ControlEnabled == {<<>>, <<PC>>, <<"intrusion">>}

ControlCalls == {PC, PPE, "intrusion"}

InitControl ==
    \E av \in ControlAvailable, en \in ControlEnabled :
        InitWith([c \in {"cam_001"} |->
                     [available |-> av, enabled |-> en, frames |-> 0]])

StartControl ==
    \E db_ok \in BOOLEAN :
        /\ start_processing(db_ok, [c \in CameraIds |-> 0],
                            [c \in CameraIds |-> "failed"])
        /\ HistNone

EnableControl ==
    \E c \in configured, u \in ControlCalls :
        enable_use_case_for_camera(c, u) /\ HistCall("enable", c, u)

DisableControl ==
    \E c \in configured, u \in ControlCalls :
        disable_use_case_for_camera(c, u) /\ HistCall("disable", c, u)

ToggleControl ==
    \E c \in configured, u \in ControlCalls, en \in BOOLEAN :
        toggle_use_case(c, u, en) /\ HistToggle(c, u)

NextControl ==
    \/ Load
    \/ StartControl
    \/ EnableControl
    \/ DisableControl
    \/ ToggleControl

SpecControl == InitControl /\ [][NextControl]_vars

\* SpecQueue: two cameras with one enabled use case each produce results
\* while the event saving thread takes them at its own pace.  cam_001's
\* stream holds QueueFrames frames, cam_002's a single one.
InitQueue ==
    InitWith([c \in CameraIds |->
                 [available |-> <<PC>>, enabled |-> <<PC>>,
                  frames |-> IF c = "cam_001" THEN QueueFrames ELSE 1]])

NextQueue ==
    \/ Load
    \/ Start
    \/ WorkerLoop
    \/ Snapshot
    \/ Model
    \/ Return
    \/ QueueEvents
    \/ SaverGet
    \/ SaverSave

SpecQueue == InitQueue /\ [][NextQueue]_vars

\* SpecStop: two cameras run and produce results, the event saving thread
\* takes them, and stop() is called by the API and by the thread of
\* start_processing.  Threads are scheduled fairly; when stop() is called,
\* and whether a join times out, is left open.
StopFrames == 2

InitStop ==
    InitWith([c \in CameraIds |->
                 [available |-> <<PC>>, enabled |-> <<PC>>,
                  frames |-> IF c = "cam_001" THEN StopFrames ELSE 1]])

StartStop ==
    \E conn \in [CameraIds -> ConnectOutcomes] :
        /\ start_processing(TRUE, [c \in CameraIds |-> 0], conn)
        /\ HistNone

StopBegin == \E k \in StopCallers : stop_begin(k) /\ HistStop(k)

StopJoinWorkers ==
    \E k \in StopCallers, timed_out \in BOOLEAN :
        stop_join_workers(k, timed_out) /\ HistNone

StopJoinQueue == \E k \in StopCallers : stop_join_queue(k) /\ HistNone

StopRelease == \E k \in StopCallers : stop_release(k) /\ HistNone

\* The steps of camera c's worker thread.
WorkerOf(c) ==
    \/ \E read_ok \in BOOLEAN, infer_ok \in BOOLEAN :
           worker_loop(c, read_ok, infer_ok) /\ HistLoop(c)
    \/ process_frame_snapshot(c) /\ HistSnapshot(c)
    \/ \E d \in -1..MaxDetections : process_frame_model(c, d) /\ HistModel(c)
    \/ process_frame_return(c) /\ HistNone
    \/ QueueEventsOf(c)

\* The steps of a stop() call after its first statement.
StopOf(k) ==
    \/ \E timed_out \in BOOLEAN : stop_join_workers(k, timed_out) /\ HistNone
    \/ stop_join_queue(k) /\ HistNone
    \/ stop_release(k) /\ HistNone

NextStop ==
    \/ Load
    \/ StartStop
    \/ WorkerLoop
    \/ Snapshot
    \/ Model
    \/ Return
    \/ QueueEvents
    \/ SaverGet
    \/ SaverSave
    \/ StopBegin
    \/ StopJoinWorkers
    \/ StopJoinQueue
    \/ StopRelease

FairStop ==
    /\ \A c \in CameraIds : WF_vars(WorkerOf(c))
    /\ WF_vars(SaverGet \/ SaverSave)
    /\ \A k \in StopCallers : WF_vars(StopOf(k))

SpecStop == InitStop /\ [][NextStop]_vars /\ FairStop

\* SpecCycle: one camera with both use cases enabled; every answer of every
\* capability, an error included, is recorded next to what the cycle makes
\* of it.
InitCycle ==
    InitWith([c \in {"cam_001"} |->
                 [available |-> <<PC, PPE>>, enabled |-> <<PC, PPE>>,
                  frames |-> CycleFrames]])

ModelAnswer ==
    \E c \in camera_streams, d \in -1..CycleDetections :
        process_frame_model(c, d) /\ HistModelAnswer(c, d)

NextCycle ==
    \/ Load
    \/ Start
    \/ WorkerLoop
    \/ Snapshot
    \/ ModelAnswer
    \/ Return
    \/ QueueEvents
    \/ SaverGet
    \/ SaverSave

SpecCycle == InitCycle /\ [][NextCycle]_vars

\* SpecStart: start_processing on two cameras under every outcome of the
\* database connect, of each capability constructor and of each connect.
\* cam_001's record ranges over lists with none, one or two mapped use
\* cases; the cameras that come up process one frame.
StartFrames == 1

StartAvailable ==
    {<<>>, <<"face_recognition">>, <<PC, PPE>>, <<PC, "face_recognition", PPE>>}

InitStart ==
    \E av \in StartAvailable, en \in {<<>>, <<PC>>, <<PPE>>} :
        /\ ListSet(en) \subseteq ListSet(av)
        /\ InitWith([c \in CameraIds |->
                        IF c = "cam_001"
                        THEN [available |-> av, enabled |-> en,
                              frames |-> StartFrames]
                        ELSE [available |-> <<PC>>, enabled |-> <<PC>>,
                              frames |-> StartFrames]])

\* Position of the constructor that raises, per camera (0: none does).
StartFailAt == [CameraIds -> 0..3]

StartAny ==
    \E db_ok \in BOOLEAN, fail_at \in StartFailAt,
       conn \in [CameraIds -> ConnectOutcomes] :
        /\ start_processing(db_ok, fail_at, conn)
        /\ HistNone

NextStart ==
    \/ Load
    \/ StartAny
    \/ WorkerLoop
    \/ Snapshot
    \/ Model
    \/ Return
    \/ QueueEvents
    \/ SaverGet
    \/ SaverSave

SpecStart == InitStart /\ [][NextStart]_vars

\* SpecFaults: one camera whose capture opens or not, whose reads fail at
\* any time, and whose results the event saving thread saves or fails to
\* save; failed reads and failed saves are recorded.
FaultFrames == 2

InitFaults ==
    InitWith([c \in {"cam_001"} |->
                 [available |-> <<PC>>, enabled |-> <<PC>>,
                  frames |-> FaultFrames]])

StartFaults ==
    \E conn \in {"connected", "failed"} :
        /\ start_processing(TRUE, [c \in CameraIds |-> 0],
                            [c \in CameraIds |-> conn])
        /\ HistNone

WorkerLoopFaults ==
    \E c \in camera_streams, read_ok \in BOOLEAN, infer_ok \in BOOLEAN :
        worker_loop(c, read_ok, infer_ok) /\ HistLoopMiss(c, read_ok)

SaverSaveFaults ==
    \E save_ok \in BOOLEAN : event_saving_save(save_ok) /\ HistSave(save_ok)

NextFaults ==
    \/ Load
    \/ StartFaults
    \/ WorkerLoopFaults
    \/ Snapshot
    \/ Model
    \/ Return
    \/ QueueEvents
    \/ SaverGet
    \/ SaverSaveFaults

SpecFaults == InitFaults /\ [][NextFaults]_vars

\* SpecLookup: enable and disable calls that name any camera id, on a
\* processor that holds a stream for cam_001 alone.
LookupCalls == {PC, PPE}

InitLookup ==
    InitWith([c \in {"cam_001"} |->
                 [available |-> <<PC, PPE>>, enabled |-> <<PC>>, frames |-> 0]])

EnableLookup ==
    \E c \in CameraIds, u \in LookupCalls :
        enable_use_case_for_camera(c, u) /\ HistCall("enable", c, u)

DisableLookup ==
    \E c \in CameraIds, u \in LookupCalls :
        disable_use_case_for_camera(c, u) /\ HistCall("disable", c, u)

NextLookup ==
    \/ Load
    \/ StartControl
    \/ EnableLookup
    \/ DisableLookup

SpecLookup == InitLookup /\ [][NextLookup]_vars

\* SpecStatus: one camera runs while status requests read its statistics
\* at any time.
StatusFrames == 2

InitStatus ==
    InitWith([c \in {"cam_001"} |->
                 [available |-> <<PC>>, enabled |-> <<PC>>,
                  frames |-> StatusFrames]])

StatusAcquire == \E c \in camera_streams : get_stats_acquire(c) /\ HistNone

StatusReturn == \E c \in camera_streams : get_stats_return(c) /\ HistNone

NextStatus ==
    \/ Load
    \/ Start
    \/ WorkerLoop
    \/ Snapshot
    \/ Model
    \/ Return
    \/ QueueEvents
    \/ SaverGet
    \/ SaverSave
    \/ StatusAcquire
    \/ StatusReturn

SpecStatus == InitStatus /\ [][NextStatus]_vars

\* SpecCancel: one camera runs and stop() is called, by either caller, at
\* any point of its cycles.
CancelFrames == 2

InitCancel ==
    InitWith([c \in {"cam_001"} |->
                 [available |-> <<PC>>, enabled |-> <<PC>>,
                  frames |-> CancelFrames]])

SpecCancel == InitCancel /\ [][NextStop]_vars

\* SpecInfer: one camera with two available use cases of which none, one
\* or both are enabled; its reads and its shared model succeed or fail.
InferFrames == 2

InitInfer ==
    \E en \in {<<>>, <<PC>>, <<PC, PPE>>} :
        InitWith([c \in {"cam_001"} |->
                     [available |-> <<PC, PPE>>, enabled |-> en,
                      frames |-> InferFrames]])

SpecInfer == InitInfer /\ [][NextFaults]_vars

\* SpecRace: two cameras hand their results over at the same time, the
\* statements of the hand-over interleaved.
RaceFrames == 1

InitRace ==
    InitWith([c \in CameraIds |->
                 [available |-> <<PC>>, enabled |-> <<PC>>,
                  frames |-> RaceFrames]])

QueueNoEvents ==
    \E c \in camera_streams :
        ~result[c].has_events /\ worker_queue_events(c) /\ HistEmit(c)

PutAndLoad == \E c \in camera_streams : worker_put_and_load(c) /\ HistNone

StoreCounts == \E c \in camera_streams : worker_store_counts(c) /\ HistEmit(c)

NextRace ==
    \/ Load
    \/ Start
    \/ WorkerLoop
    \/ Snapshot
    \/ Model
    \/ Return
    \/ QueueNoEvents
    \/ PutAndLoad
    \/ StoreCounts
    \/ SaverGet
    \/ SaverSave

SpecRace == InitRace /\ [][NextRace]_vars

(* ------------------------------------------------------------------ *)
(* Properties, SpecControl                                             *)
(* ------------------------------------------------------------------ *)

\* C1 (as claimed): for every camera stream, in every state after
\* load_camera_configurations, enabled_use_cases is a subset of
\* available_use_cases.
C1_EnabledSubsetOfAvailable ==
    \A c \in camera_streams :
        ListSet(enabled_use_cases[c]) \subseteq ListSet(available_use_cases[c])

\* What a call leaves alone when it changes nothing of camera c's enabled
\* state: the enabled list, the flags and the reported enabled_models.
EnabledStateUnchanged(c) ==
    /\ enabled_use_cases'[c] = enabled_use_cases[c]
    /\ model_enabled'[c] = model_enabled[c]
    /\ stats'[c].enabled_models = stats[c].enabled_models

\* This step is the call op(c, u), as the history records it.
IsCall(op, c, u) ==
    /\ last_call'.op = op
    /\ last_call'.camera_id = c
    /\ last_call'.use_case = u

\* C2: enable_use_case_for_camera(c, u) with u not in the camera's
\* available_use_cases returns failure and leaves the enabled list, the
\* capability flags and the reported enabled_models as they were.
C2_EnableUnavailableFails ==
    [][\A c \in CameraIds, u \in UseCaseIds :
          (/\ enable_use_case_for_camera(c, u)
           /\ IsCall("enable", c, u)
           /\ c \in camera_streams
           /\ ~InList(u, available_use_cases[c]))
          => (call_ret' = FALSE /\ EnabledStateUnchanged(c))]_vars

\* C2 witness: an initialised camera with a non-empty enabled list has just
\* refused to enable a use case that is not in its available list.
C2_Witness ==
    \E c \in camera_streams :
        /\ last_call.op = "enable"
        /\ last_call.camera_id = c
        /\ last_call.ret = FALSE
        /\ camera_models[c] # <<>>
        /\ enabled_use_cases[c] # <<>>
        /\ enabled_use_cases[c] = last_call.before
        /\ ~InList(last_call.use_case, available_use_cases[c])

\* The last two calls were enable(c, u) and then disable(c, u).
EnableThenDisable(c) ==
    /\ prev_call.op = "enable"
    /\ last_call.op = "disable"
    /\ prev_call.camera_id = c
    /\ last_call.camera_id = c
    /\ prev_call.use_case = last_call.use_case

\* C5 (as claimed): for every use case, enable followed by disable leaves
\* the enabled list exactly as it was before the two calls.
C5_RoundTripAlways ==
    \A c \in CameraIds :
        EnableThenDisable(c) => enabled_use_cases[c] = prev_call.before

\* C5 (amended): for every use case that was not in the enabled list before
\* the two calls, enable followed by disable leaves the enabled list exactly
\* as it was before them.
C5_RoundTripWhenNotEnabled ==
    \A c \in CameraIds :
        (EnableThenDisable(c) /\ ~InList(prev_call.use_case, prev_call.before))
        => enabled_use_cases[c] = prev_call.before

\* C5 witness: both calls succeeded on a use case that was not enabled, on
\* a camera whose enabled list held another use case, and the list is back.
C5_Witness ==
    \E c \in camera_streams :
        /\ EnableThenDisable(c)
        /\ prev_call.ret
        /\ last_call.ret
        /\ prev_call.before # <<>>
        /\ ~InList(prev_call.use_case, prev_call.before)
        /\ InList(prev_call.use_case, last_call.before)
        /\ enabled_use_cases[c] = prev_call.before

\* The enabled list (order and entries) and the flags of camera c are as
\* they were.
ListAndFlagsUnchanged(c) ==
    /\ enabled_use_cases'[c] = enabled_use_cases[c]
    /\ model_enabled'[c] = model_enabled[c]

\* C6 (as claimed): enabling a use case that is in the enabled list returns
\* success and changes neither the list nor the flags; disabling an available
\* use case that is not in the enabled list returns success and changes
\* neither.
C6_Idempotent ==
    [][\A c \in CameraIds, u \in UseCaseIds :
          /\ (/\ enable_use_case_for_camera(c, u)
              /\ IsCall("enable", c, u)
              /\ c \in camera_streams
              /\ InList(u, enabled_use_cases[c]))
             => (call_ret' = TRUE /\ ListAndFlagsUnchanged(c))
          /\ (/\ disable_use_case_for_camera(c, u)
              /\ IsCall("disable", c, u)
              /\ c \in camera_streams
              /\ InList(u, available_use_cases[c])
              /\ ~InList(u, enabled_use_cases[c]))
             => (call_ret' = TRUE /\ ListAndFlagsUnchanged(c))]_vars

\* C26: load_camera_configurations builds a stream only for a configuration
\* record whose enabled_use_cases are all in its available_use_cases; a
\* record that breaks this is rejected.
C26_LoadValidates ==
    [][load_camera_configurations
          => \A c \in configured :
                 c \in camera_streams'
                 => \A u \in ListSet(enabled_use_cases[c]) :
                        InList(u, available_use_cases[c])]_vars

\* C38: in every state of a stream and for every use case u, u is in
\* enabled_use_cases (what get_stats and get_enabled_use_cases report) if
\* and only if u has a capability instance whose enabled flag is true
\* (what process_frame fans out to).
C38_ListMatchesFlags ==
    \A c \in camera_streams, u \in UseCaseIds \cup {"intrusion"} :
        InList(u, enabled_use_cases[c])
        <=> (InList(u, camera_models[c]) /\ DictGet(model_enabled[c], u, FALSE))

\* C39: for a camera loaded by load_camera_configurations and every use
\* case in its available_use_cases, enable_use_case and disable_use_case
\* return success, also before start_processing has initialised the
\* worker; a call fails only for a use case outside available_use_cases.
C39_AvailableCallsSucceed ==
    [][\A c \in CameraIds, u \in UseCaseIds \cup {"intrusion"} :
          /\ (/\ enable_use_case_for_camera(c, u)
              /\ IsCall("enable", c, u)
              /\ c \in camera_streams
              /\ InList(u, available_use_cases[c]))
             => call_ret' = TRUE
          /\ (/\ disable_use_case_for_camera(c, u)
              /\ IsCall("disable", c, u)
              /\ c \in camera_streams
              /\ InList(u, available_use_cases[c]))
             => call_ret' = TRUE]_vars

\* C40: after load_camera_configurations a stream's enabled_use_cases
\* changes only through the stream's own enable_use_case / disable_use_case:
\* every step that changes the list of a loaded stream is the effect of such
\* a call on a capability of the stream (flag set and use case appended, or
\* flag cleared and use case removed); a mutation of the configuration
\* record by the API toggle alone leaves the list as it was.
C40_EnabledChangesOnlyByOwnCalls ==
    [][\A c \in camera_streams :
          enabled_use_cases'[c] # enabled_use_cases[c]
          => \E u \in ListSet(camera_models[c]) :
                \/ /\ enabled_use_cases'[c] = AppendIfAbsent(enabled_use_cases[c], u)
                   /\ DictGet(model_enabled'[c], u, FALSE)
                \/ /\ enabled_use_cases'[c] = RemoveIfPresent(enabled_use_cases[c], u)
                   /\ ~DictGet(model_enabled'[c], u, TRUE)]_vars

(* ------------------------------------------------------------------ *)
(* Properties, Spec                                                    *)
(* ------------------------------------------------------------------ *)

\* C3: a result of a cycle that started after enable(c, u) returned success
\* lists u, unless u was disabled since; a result of a cycle that started
\* after disable(c, u) returned success neither lists u nor holds events
\* for u, unless u was enabled since.
C3_CallsHoldForLaterCycles ==
    \A c \in camera_streams :
        pc[c] = "emit" =>
            /\ must_list[c] \subseteq ListSet(result[c].enabled_use_cases)
            /\ must_not_list[c] \cap ListSet(result[c].enabled_use_cases) = {}
            /\ must_not_list[c] \cap DOMAIN result[c].all_events = {}

\* C3 witness: a cycle that started after ppe_detection was enabled and
\* people_counting was disabled has produced its result.
C3_Witness ==
    \E c \in camera_streams :
        /\ pc[c] = "emit"
        /\ PPE \in must_list[c]
        /\ PC \in must_not_list[c]
        /\ result[c].enabled_use_cases = <<PPE>>
        /\ result[c].has_events

\* The use cases whose flag is set now.
FlagsSet(c) == {u \in DOMAIN model_enabled[c] : model_enabled[c][u]}

\* C4: the capabilities run in a cycle and the enabled_use_cases of its
\* result are exactly the flags seen under the lock at the snapshot, and the
\* keys of all_events are among them, whatever calls landed during the cycle.
C4_OneSnapshotPerCycle ==
    \A c \in camera_streams :
        /\ pc[c] = "fanout" => invoked[c] \subseteq lock_view[c]
        /\ pc[c] = "emit" =>
              /\ invoked[c] = lock_view[c]
              /\ ListSet(result[c].enabled_use_cases) = lock_view[c]
              /\ DOMAIN result[c].all_events \subseteq lock_view[c]

\* C4 witness: a result whose cycle ran both capabilities while a call
\* switched one of them off.
C4_Witness ==
    \E c \in camera_streams :
        /\ pc[c] = "emit"
        /\ lock_view[c] = {PC, PPE}
        /\ FlagsSet(c) # lock_view[c]
        /\ ListSet(enabled_use_cases[c]) # lock_view[c]
        /\ DOMAIN result[c].all_events = {PC, PPE}

\* C7: a cycle that took its snapshot when every use case of the camera was
\* disabled produces a result with has_events false, total_events 0 and
\* empty all_events, and the worker puts nothing on the event queue for it.
C7_AllDisabledNoEvents ==
    [][\A c \in CameraIds :
          (pc[c] = "emit" /\ quiet[c] /\ pc'[c] = "loop")
          => /\ ~result[c].has_events
             /\ result[c].total_events = 0
             /\ result[c].all_events = EmptyDict
             /\ event_queue' = event_queue
             /\ unfinished_tasks' = unfinished_tasks
             /\ global_stats' = global_stats]_vars

\* C7 witness: after an earlier result with events was queued, people_counting
\* was disabled, and a cycle that took its snapshot afterwards has produced
\* a result without events.
C7_Witness ==
    \E c \in camera_streams :
        /\ pc[c] = "emit"
        /\ quiet[c]
        /\ last_ok[c][PC] = "disable"
        /\ global_stats.total_events > 0
        /\ ~result[c].has_events
        /\ result[c].enabled_use_cases = <<>>

(* ------------------------------------------------------------------ *)
(* Properties, SpecQueue                                               *)
(* ------------------------------------------------------------------ *)

\* C8: every result a camera worker emits carries a frame_count greater
\* than that of the result it emitted before, with or without events and
\* whatever cycles failed in between.
C8_FrameCountIncreasing ==
    \A c \in camera_streams :
        pc[c] = "emit" => result[c].frame_count > last_emitted[c]

\* C8 witness: a result without events is emitted after an earlier result
\* and a failed cycle in between.
C8_Witness ==
    \E c \in camera_streams :
        /\ pc[c] = "emit"
        /\ last_emitted[c] > 0
        /\ result[c].frame_count > last_emitted[c] + 1
        /\ ~result[c].has_events

\* C9: a worker holding a result can always take its step to the next
\* iteration, whatever the number of results pending in the event queue.
C9_PutNeverBlocks ==
    \A c \in camera_streams :
        pc[c] = "emit" => ENABLED worker_queue_events(c)

\* C9 witness: a worker has put a result on a queue that already held
\* EVENT_QUEUE_SIZE results, and is back at the top of its loop.
C9_Witness ==
    \E c \in camera_streams :
        /\ pc[c] = "loop"
        /\ Len(event_queue) > EVENT_QUEUE_SIZE
        /\ event_queue[Len(event_queue)].camera_id = c
        /\ saver_pc = "get"

\* C10 (as claimed): the number of pending results never exceeds the
\* capacity EVENT_QUEUE_SIZE.
C10_QueueBounded == Len(event_queue) <= EVENT_QUEUE_SIZE

\* C34: the worker puts a result on the event queue exactly when
\* process_frame returned one and it has events.  The hand-over of a result
\* with events appends it; the hand-over of a result without events and
\* every other step of a worker (a failed read or a failed shared model
\* included) append nothing; and no result is on the queue twice.
C34_EnqueueIffHasEvents ==
    /\ [](\A i, j \in 1..Len(event_queue) :
             /\ event_queue[i].has_events
             /\ i # j =>
                   <<event_queue[i].camera_id, event_queue[i].frame_count>> #
                   <<event_queue[j].camera_id, event_queue[j].frame_count>>)
    /\ [][/\ \A c \in camera_streams :
                (pc[c] = "emit" /\ pc'[c] = "loop")
                => event_queue' = IF result[c].has_events
                                  THEN Append(event_queue, result[c])
                                  ELSE event_queue
          /\ Len(event_queue') > Len(event_queue)
             => \E c \in camera_streams :
                    /\ pc[c] = "emit"
                    /\ pc'[c] = "loop"
                    /\ result[c].has_events
                    /\ result[c].frame_count > last_emitted[c]]_vars

\* C34 witness: a camera has processed two frames; the result with events
\* is on the queue, the one without events is not, and nothing else was
\* ever queued.
C34_Witness ==
    \E c \in camera_streams :
        /\ pc[c] = "loop"
        /\ stats[c].frames_processed = 2
        /\ global_stats.total_events = 1
        /\ global_stats.events_by_camera[c] = 1
        /\ Len(event_queue) = 1
        /\ event_queue[1].camera_id = c
        /\ unfinished_tasks = 1

\* C36: the orchestrator's global statistics are not written by two
\* different workers: when a worker adds to global_stats['total_events'],
\* no other worker has added to it before.
C36_OnlyQueueShared ==
    [][\A c \in camera_streams :
          (/\ pc[c] = "emit"
           /\ pc'[c] = "loop"
           /\ global_stats'.total_events # global_stats.total_events)
          => \A other \in camera_streams \ {c} :
                 global_stats.events_by_camera[other] = 0]_vars

(* ------------------------------------------------------------------ *)
(* Properties, SpecStop                                                *)
(* ------------------------------------------------------------------ *)

\* Every thread of the orchestrator has ended.
ShutDown ==
    /\ ~running
    /\ saver_pc = "stopped"
    /\ \A c \in camera_streams : pc[c] = "stopped"

\* C11 (as claimed): once the workers and the event saving thread have
\* ended, no result that was put on the event queue is left in it: each was
\* handed to _save_camera_event (the program counts no dropped results).
C11_NoResultLeftBehind ==
    ShutDown => (event_queue = <<>> /\ unfinished_tasks = 0)

\* C12 (as claimed): after stop() is called on a started orchestrator, every
\* camera worker eventually leaves its loop, and its connection_status is
\* 'disconnected'.
C12_WorkersReachStopped ==
    \A c \in CameraIds :
        (/\ \E k \in StopCallers : stop_pc[k] # "idle"
         /\ ~running
         /\ pc[c] # "idle")
        ~> (pc[c] = "stopped" /\ stats[c].connection_status = "disconnected")

\* C13 (as claimed): under fair scheduling every stop() call that was begun
\* eventually returns.
C13_StopReturns ==
    \A k \in StopCallers : (stop_pc[k] # "idle") ~> (stop_pc[k] = "returned")

\* C14 (as claimed): a stop() call that begins when the orchestrator is
\* stopped, or was never started, changes nothing at any of its steps: not
\* running, not the count of releases of the uploader and the database.
C14_StopOnStoppedIsNoOp ==
    [][\A k \in StopCallers :
          (stop_on_stopped'[k] /\ stop_pc'[k] # stop_pc[k])
          => UNCHANGED <<stopFrame, running, released>>]_vars

\* C15 (as claimed): the event saving thread ends only when no camera worker
\* is inside a cycle that can still put a result on the queue, and the
\* uploader and the database are released only when the workers and the
\* event saving thread have ended.
C15_StopOrder ==
    /\ saver_pc = "stopped" =>
           \A c \in camera_streams : pc[c] \notin {"snapshot", "fanout", "emit"}
    /\ released > 0 => (WorkersFinished /\ saver_pc \in {"idle", "stopped"})

\* C30: once stop() has been called by the API on a started processor,
\* whose start_processing thread calls stop() itself when its monitoring
\* loop ends, the uploader and the database handle are released at most
\* once, and exactly once when every stop() call has returned.
C30_ReleasedOnceAcrossCallers ==
    (saver_pc # "idle" /\ stop_pc["api"] # "idle")
    => /\ released <= 1
       /\ (\A k \in StopCallers : stop_pc[k] = "returned") => released = 1

\* C31: once a stop() call has released the uploader and disconnected the
\* database, the event saving thread starts no save of a result any more,
\* whatever a worker whose join timed out puts on the queue afterwards.
C31_NoSaveAfterRelease ==
    [][released >= 1 => ~(saver_pc = "get" /\ saver_pc' = "save")]_vars

\* C32: self.running is tested at the top of the worker's loop only.  A
\* cycle whose frame went through the shared model is never held up or cut
\* short, whether stop() has been called or not: its worker can always take
\* its next step, the steps follow one another from the snapshot through the
\* fan-out and the statistics update to the hand-over, and a result with
\* events is put on the queue.
C32_CycleRunsToCompletion ==
    /\ [](\A c \in camera_streams :
             pc[c] \in {"snapshot", "fanout", "emit"} => ENABLED WorkerOf(c))
    /\ [][\A c \in camera_streams :
             /\ pc[c] = "snapshot" => pc'[c] \in {"snapshot", "fanout"}
             /\ pc[c] = "fanout" => pc'[c] \in {"fanout", "emit"}
             /\ (pc[c] = "fanout" /\ pc'[c] = "emit")
                => /\ stats'[c].frames_processed = stats[c].frames_processed + 1
                   /\ result'[c].frame_count = frame_count[c]
             /\ pc[c] = "emit" => pc'[c] \in {"emit", "loop"}
             /\ (pc[c] = "emit" /\ pc'[c] = "loop" /\ result[c].has_events)
                => event_queue' = Append(event_queue, result[c])]_vars

\* C32 witness: stop() was called while a cycle was in flight and its join
\* of the workers is over; the cycle has gone on to its result, which has
\* events and is about to be put on the queue.
C32_Witness ==
    \E c \in camera_streams, k \in StopCallers :
        /\ ~running
        /\ stop_pc[k] \in {"join_queue", "release", "returned"}
        /\ pc[c] = "emit"
        /\ result[c].has_events
        /\ stats[c].frames_processed = 1

(* ------------------------------------------------------------------ *)
(* Properties, SpecStart                                               *)
(* ------------------------------------------------------------------ *)

\* The worker of camera c is in its processing loop.
InLoop(c) == pc[c] \in {"loop", "snapshot", "fanout", "emit"}

\* C16 (as claimed): a camera worker is in its processing loop only if the
\* camera's connect succeeded.
C16_RunsOnlyIfConnected ==
    \A c \in camera_streams : InLoop(c) => cap[c] = "open"

\* The mapped use cases of camera c's available list.
Constructible(c) == ListSet(available_use_cases[c]) \cap CAMERA_MODEL_MAPPING

\* With these outcomes camera c's initialize and connect both succeed.
StartedWell(c, fail_at, conn) ==
    /\ ~ConstructorRaises(available_use_cases[c], fail_at[c])
    /\ conn[c] = "connected"

\* C17: whatever happens to the other cameras, a camera whose initialize
\* and connect both succeed gets all its capabilities, an open capture and
\* a worker, and active_cameras is the number of such cameras.
C17_PartialStart ==
    [][\A fail_at \in StartFailAt, conn \in [CameraIds -> ConnectOutcomes] :
          start_processing(TRUE, fail_at, conn)
          => /\ \A c \in camera_streams :
                    StartedWell(c, fail_at, conn)
                    => /\ ListSet(camera_models'[c]) = Constructible(c)
                       /\ cap'[c] = "open"
                       /\ stats'[c].connection_status = "connected"
                       /\ pc'[c] = "loop"
             /\ global_stats'.active_cameras =
                    Cardinality({c \in camera_streams :
                                    StartedWell(c, fail_at, conn)})]_vars

\* C17 witness: one camera did not come up, the other one is counted as the
\* only active camera and has processed a frame.
C17_Witness ==
    \E c1, c2 \in camera_streams :
        /\ cap[c1] \in {"none", "unopened"}
        /\ pc[c1] # "idle"
        /\ cap[c2] = "open"
        /\ camera_models[c2] # <<>>
        /\ stats[c2].frames_processed > 0
        /\ global_stats.active_cameras = 1

\* C18 (as claimed): when one constructor raises and another available use
\* case can be constructed, initialize succeeds (connect is called), and
\* every other mapped available use case has its capability, flagged as the
\* enabled list says.
C18_PartialConstruction ==
    [][\A fail_at \in StartFailAt, conn \in [CameraIds -> ConnectOutcomes] :
          start_processing(TRUE, fail_at, conn)
          => \A c \in camera_streams :
                 (/\ ConstructorRaises(available_use_cases[c], fail_at[c])
                  /\ Constructible(c) \ {available_use_cases[c][fail_at[c]]} # {})
                 => /\ stats'[c].connection_status = conn[c]
                    /\ ListSet(camera_models'[c]) =
                           Constructible(c) \ {available_use_cases[c][fail_at[c]]}
                    /\ \A u \in ListSet(camera_models'[c]) :
                           model_enabled'[c][u] = InList(u, enabled_use_cases[c])]_vars

\* C19 (as claimed): for a camera whose available list holds no mapped use
\* case, initialize reports failure (connect is not called) and no worker
\* is run for the camera.
C19_NoCapabilityFails ==
    [][\A fail_at \in StartFailAt, conn \in [CameraIds -> ConnectOutcomes] :
          start_processing(TRUE, fail_at, conn)
          => \A c \in camera_streams :
                 Constructible(c) = {}
                 => /\ cap'[c] = "none"
                    /\ stats'[c].connection_status = stats[c].connection_status
                    /\ pc'[c] = "idle"]_vars

\* C29: when initialize of a camera has returned True, the camera has one
\* capability for each of its available use cases, enabled or not; and an
\* enable or disable call leaves the capability map of every camera as it
\* was.
C29_CapabilityPerAvailable ==
    [][/\ \A fail_at \in StartFailAt, conn \in [CameraIds -> ConnectOutcomes] :
             start_processing(TRUE, fail_at, conn)
             => \A c \in camera_streams :
                    ~ConstructorRaises(available_use_cases[c], fail_at[c])
                    => ListSet(camera_models'[c]) =
                           ListSet(available_use_cases[c])
       /\ \A c \in CameraIds, u \in UseCaseIds :
             (enable_use_case_for_camera(c, u) \/ disable_use_case_for_camera(c, u))
             => camera_models' = camera_models]_vars

(* ------------------------------------------------------------------ *)
(* Properties, SpecCycle                                               *)
(* ------------------------------------------------------------------ *)

\* C20: after a capability has raised, the cycle goes on; its result holds
\* no events for a capability that raised, every capability of the snapshot
\* was run, and the events of those that returned some are in all_events
\* and add up to total_events.
C20_CapabilityErrorContained ==
    \A c \in camera_streams :
        /\ raised[c] # {} => pc[c] \in {"fanout", "emit"}
        /\ pc[c] = "emit" =>
              /\ raised[c] \cap DOMAIN result[c].all_events = {}
              /\ invoked[c] = lock_view[c]
              /\ result[c].all_events = reported[c]
              /\ result[c].total_events = DictSum(reported[c])
              /\ result[c].has_events = (DOMAIN reported[c] # {})

\* C20 witness: people_counting raised, ppe_detection was run after it on
\* the same frame, and the result carries its events alone.
C20_Witness ==
    \E c \in camera_streams :
        /\ pc[c] = "emit"
        /\ raised[c] = {PC}
        /\ invoked[c] = {PC, PPE}
        /\ DOMAIN result[c].all_events = {PPE}
        /\ result[c].total_events > 0

C22_HasEventsIffTotalPositive ==
    /\ \A c \in camera_streams :
           pc[c] = "emit" =>
               (result[c].has_events <=> result[c].total_events > 0)
    /\ \A i \in 1..Len(event_queue) :
           event_queue[i].has_events <=> event_queue[i].total_events > 0
    /\ saver_pc = "save" => (saving.has_events <=> saving.total_events > 0)

\* C22 witness: a result whose capabilities both ran and returned nothing:
\* has_events is false and total_events is 0.
C22_Witness ==
    \E c \in camera_streams :
        /\ pc[c] = "emit"
        /\ invoked[c] = {PC, PPE}
        /\ raised[c] = {}
        /\ ~result[c].has_events
        /\ result[c].total_events = 0

(* ------------------------------------------------------------------ *)
(* Properties, SpecFaults                                              *)
(* ------------------------------------------------------------------ *)

\* C23: a loop iteration of a running worker whose read fails (no open
\* capture, or no frame returned) yields no result, leaves the worker at the
\* top of its loop with its capture as it was, and changes neither
\* frame_count nor frames_processed.
C23_SoftMiss ==
    [][\A c \in camera_streams, read_ok \in BOOLEAN, infer_ok \in BOOLEAN :
          (running /\ ReadFails(c, read_ok) /\ worker_loop(c, read_ok, infer_ok))
          => /\ pc'[c] = "loop"
             /\ result'[c] = NoResult
             /\ event_queue' = event_queue
             /\ cap'[c] = cap[c]
             /\ running'
             /\ frame_count'[c] = frame_count[c]
             /\ stats'[c].frames_processed = stats[c].frames_processed]_vars

\* C23 witness: the worker has processed a frame, its next read failed, and
\* it is at the top of its loop with the counters of that one frame.
C23_Witness ==
    \E c \in camera_streams :
        /\ running
        /\ pc[c] = "loop"
        /\ cap[c] = "open"
        /\ soft_misses[c] = 1
        /\ frame_count[c] = 1
        /\ stats[c].frames_processed = 1

\* C24: a running worker never logs more than CAMERA_RECONNECT_ATTEMPTS
\* failed reads in a row: by then it has disconnected and connected again.
C24_ReconnectAfterMisses ==
    \A c \in camera_streams :
        running => soft_misses[c] <= CAMERA_RECONNECT_ATTEMPTS

(* ------------------------------------------------------------------ *)
(* Properties, SpecLookup                                              *)
(* ------------------------------------------------------------------ *)

\* C25: enable_use_case_for_camera and disable_use_case_for_camera with a
\* camera_id that is no key of camera_streams return failure and leave the
\* enabled list, the capability flags and the capability map of every
\* stream as they were.
C25_UnknownCameraFails ==
    [][\A c \in CameraIds, u \in UseCaseIds :
          (/\ c \notin camera_streams
           /\ \/ enable_use_case_for_camera(c, u) /\ IsCall("enable", c, u)
              \/ disable_use_case_for_camera(c, u) /\ IsCall("disable", c, u))
          => /\ call_ret' = FALSE
             /\ \A w \in camera_streams :
                    /\ EnabledStateUnchanged(w)
                    /\ camera_models'[w] = camera_models[w]]_vars

\* C25 witness: after a call on cam_001 that succeeded, a call naming a
\* camera without a stream has returned failure, and the initialised stream
\* of cam_001 has the enabled list that call found.
C25_Witness ==
    /\ processor
    /\ last_call.op \in {"enable", "disable"}
    /\ last_call.camera_id \notin camera_streams
    /\ ~last_call.ret
    /\ ~call_ret
    /\ prev_call.camera_id \in camera_streams
    /\ prev_call.ret
    /\ \E w \in camera_streams :
           /\ camera_models[w] # <<>>
           /\ enabled_use_cases[w] = <<PC, PPE>>

(* ------------------------------------------------------------------ *)
(* Properties, SpecStatus                                              *)
(* ------------------------------------------------------------------ *)

\* C27: whatever a worker is doing (reading a frame, running the shared
\* model or a capability, handing over a result), it does not hold its
\* stream's lock: the lock is free or held by the status read itself, so a
\* status request that is not inside get_stats can enter it at once.
C27_StatusNeverBlocksOnWorker ==
    \A c \in camera_streams :
        /\ lock[c] # "worker"
        /\ lock[c] # "free" => status_at = c
        /\ (processor /\ status_at = "none") => ENABLED get_stats_acquire(c)

\* C35: the statistics of a camera are written only by a step that holds
\* the camera's lock: never while a status read is inside get_stats.
C35_StatsWrittenUnderLock ==
    [][\A c \in camera_streams :
          stats'[c] # stats[c] => lock[c] = "free"]_vars

\* C27 witness: a status read holds the lock of a camera whose worker is in
\* the middle of its fan-out, after an earlier one returned the statistics
\* of a processed frame.
C27_Witness ==
    \E c \in camera_streams :
        /\ pc[c] = "fanout"
        /\ todo[c] # <<>>
        /\ lock[c] = "status"
        /\ status_at = c
        /\ status_ret.camera_id = c
        /\ status_ret.frames_processed = 1

\* C28: when saving a dequeued result fails, the result is dropped: it does
\* not go back on the queue, it is marked done once (unfinished_tasks falls
\* by one and stays the number of results queued or being saved), and the
\* event saving thread returns to take the next result.
C28_SaveFailureContained ==
    /\ [](unfinished_tasks =
             Len(event_queue) + (IF saver_pc = "save" THEN 1 ELSE 0))
    /\ [][(dropped' = dropped + 1)
            => /\ event_queue' = event_queue
               /\ \A i \in 1..Len(event_queue') : event_queue'[i] # saving
               /\ unfinished_tasks' = unfinished_tasks - 1
               /\ saving' = NoResult
               /\ saver_pc' = "get"]_vars

\* C28 witness: the save of one result failed, and the event saving thread
\* has taken the result that followed it.
C28_Witness ==
    /\ dropped = 1
    /\ saver_pc = "save"
    /\ saving.frame_count = 2
    /\ unfinished_tasks = 1

(* ------------------------------------------------------------------ *)
(* Properties, SpecInfer                                               *)
(* ------------------------------------------------------------------ *)

\* C33: a cycle whose frame was read has called the shared model exactly
\* once, at every point from the snapshot to the hand-over of its result and
\* with none, one or two capabilities in its fan-out; a loop iteration
\* whose read fails calls it not at all.
C33_OneInferencePerCycle ==
    /\ [](\A c \in camera_streams :
             /\ pc[c] \in {"snapshot", "fanout", "emit"} => inference_calls[c] = 1
             /\ pc[c] \notin {"snapshot", "fanout", "emit"} => inference_calls[c] = 0)
    /\ [][\A c \in camera_streams, read_ok \in BOOLEAN, infer_ok \in BOOLEAN :
             (running /\ ReadFails(c, read_ok) /\ worker_loop(c, read_ok, infer_ok))
             => inference_calls'[c] = 0]_vars

\* C33 witness: a cycle that ran two capabilities has its result, and the
\* shared model was called once for it.
C33_Witness ==
    \E c \in camera_streams :
        /\ pc[c] = "emit"
        /\ result[c].enabled_use_cases = <<PC, PPE>>
        /\ invoked[c] = {PC, PPE}
        /\ inference_calls[c] = 1

(* ------------------------------------------------------------------ *)
(* Properties, SpecRace                                                *)
(* ------------------------------------------------------------------ *)

\* C37: whenever no worker is between the put of a result and the end of
\* its statistics update, global_stats['total_events'] is the sum of
\* global_stats['events_by_camera'] over the cameras, which is the sum of
\* total_events over the results put on the queue so far.
C37_NoLostUpdate ==
    (\A c \in camera_streams : pc[c] # "count")
    => global_stats.total_events = DictSum(global_stats.events_by_camera)

====
